---- MODULE Spec2Model ----
(***************************************************************************)
(* Model of DynGauge.cpp, a DynRPG plugin: the BattleDisplay class (static *)
(* tile images, per-battler snapshot and display image), the two display   *)
(* pools and the plugin hooks onStartup, onFrame and onExit.               *)
(***************************************************************************)
EXTENDS Integers, Sequences, FiniteSets, TLC

(***************************************************************************)
(* Program constants (DynGauge.cpp:27-56, 290-291).                        *)
(***************************************************************************)
DISPLAY_WIDTH == 80
DISPLAY_HEIGHT == 320
GAUGE_WIDTH == 40
GAUGE_HEIGHT == 8
HEALTH_GAUGE_SRC_X == 0
HEALTH_GAUGE_SRC_Y == 40
MANA_GAUGE_SRC_X == 0
MANA_GAUGE_SRC_Y == 56
ATB_GAUGE_SRC_X == 0
ATB_GAUGE_SRC_Y == 72
BAR_WIDTH == 40
BAR_HEIGHT == 8
HEALTH_BAR_A_SRC_X == 48
HEALTH_BAR_A_SRC_Y == 40
MANA_BAR_A_SRC_X == 48
MANA_BAR_A_SRC_Y == 56
ATB_BAR_A_SRC_X == 48
ATB_BAR_A_SRC_Y == 72
HEALTH_BAR_B_SRC_X == 64
HEALTH_BAR_B_SRC_Y == 40
MANA_BAR_B_SRC_X == 64
MANA_BAR_B_SRC_Y == 56
ATB_BAR_B_SRC_X == 64
ATB_BAR_B_SRC_Y == 72
DIGIT_WIDTH == 8
DIGIT_HEIGHT == 16
DIGIT_SRC_X == 0
DIGIT_SRC_Y == 80
NUM_DIGITS == 10
NUM_HEROES == 4
NUM_MONSTERS == 8

(***************************************************************************)
(* Bounds of the model.                                                    *)
(***************************************************************************)
\* number of onFrame ticks the tick recorder keeps after a startup
MaxTicks == 4
\* number of direct BattleDisplay method calls in one run
MaxApiCalls == 1
\* number of direct BattleDisplay method calls in one run of the class alone
MaxDisplayCalls == 3
\* number of onExit calls in one run
MaxExits == 2

(***************************************************************************)
(* Host side: scenes, battlers, the system graphic.                        *)
(***************************************************************************)
SCENE_BATTLE == "SCENE_BATTLE"
SCENE_MAP == "SCENE_MAP"
Scenes == {SCENE_MAP, SCENE_BATTLE}

Hero(i) == <<"hero", i>>
Monster(i) == <<"monster", i>>
NULL == <<"NULL", 0>>

\* RPG::monsters[0..7] and the party's heroes 0..3
Monsters == {Monster(i) : i \in 0..(NUM_MONSTERS - 1)}
Heroes == {Hero(i) : i \in 0..(NUM_HEROES - 1)}
Battlers == Heroes \cup Monsters

\* heroBattleDisplay[0..3] and monsterBattleDisplay[0..7]; a display is named
\* by its pool and index
HeroDisplays == {Hero(i) : i \in 0..(NUM_HEROES - 1)}
MonsterDisplays == {Monster(i) : i \in 0..(NUM_MONSTERS - 1)}
Displays == HeroDisplays \cup MonsterDisplays

\* a BattleDisplay its user constructs for a battler, outside the two pools
LocalDisplay == <<"local", 0>>

\* the fields of an RPG::Battler the plugin reads
BattlerVals ==
    { [databaseId |-> 0, hp |-> 4, mp |-> 5, atbValue |-> 6],
      [databaseId |-> 1, hp |-> 50, mp |-> 10, atbValue |-> 200],
      [databaseId |-> 2, hp |-> 7, mp |-> 3, atbValue |-> 1] }

\* what a read through an invalid battler pointer may yield
GarbageVals == { [hp |-> -1, mp |-> -2, atbValue |-> -3],
                 [hp |-> 50, mp |-> 10, atbValue |-> 200] }

\* an encounter of n monsters fills the first n entries
Absent == [databaseId |-> 0, hp |-> 4, mp |-> 5, atbValue |-> 6]
Present == [databaseId |-> 1, hp |-> 50, mp |-> 10, atbValue |-> 200]
Encounter(n) ==
    [b \in Battlers |->
        IF b[1] = "monster" /\ b[2] >= n THEN Absent ELSE Present]
EncounterSizes == {0, NUM_MONSTERS}

\* the battler entries the host rewrites while the plugin runs: the first and
\* the last monster entry
WrittenBattlers == {Monster(0), Monster(NUM_MONSTERS - 1)}

\* the displays and battler pointers used in direct method calls
ApiDisplays == {Monster(0), LocalDisplay}
ApiBattlers == {Hero(0), Monster(0), Monster(NUM_MONSTERS - 1)}

\* the battler pointer the local display is constructed for
CtorBattlers == {Monster(0)}

\* the contents the host's system graphic can have
GraphicVersions == {1, 2}

(***************************************************************************)
(* RPG::Image: an image is its size and the list of draws made onto it     *)
(* since it was created or cleared.                                        *)
(***************************************************************************)
ImageCreate(wd, ht) == [width |-> wd, height |-> ht, layers |-> <<>>]

ImageClear(img) == [img EXCEPT !.layers = <<>>]

\* dst->draw(dx, dy, src, sx, sy, w, h, mask)
ImageDraw(dst, dx, dy, src, sx, sy, wd, ht, mask) ==
    [dst EXCEPT !.layers = Append(@,
        [dx |-> dx, dy |-> dy, src |-> src, sx |-> sx, sy |-> sy,
         w |-> wd, h |-> ht, mask |-> mask])]

\* the pixels of RPG::system->systemGraphic->system2Image, content version g
SystemGraphic(g) == <<g>>

(***************************************************************************)
(* The static tile images of BattleDisplay.                                *)
(***************************************************************************)
mHealthGaugePtr == <<"mHealthGaugePtr", 0>>
mManaGaugePtr == <<"mManaGaugePtr", 0>>
mATBGaugePtr == <<"mATBGaugePtr", 0>>
mHealthBarAPtr == <<"mHealthBarAPtr", 0>>
mHealthBarBPtr == <<"mHealthBarBPtr", 0>>
mManaBarAPtr == <<"mManaBarAPtr", 0>>
mManaBarBPtr == <<"mManaBarBPtr", 0>>
mATBBarAPtr == <<"mATBBarAPtr", 0>>
mATBBarBPtr == <<"mATBBarBPtr", 0>>
mDigitPtr(i) == <<"mDigitPtr", i>>

Gauges == {mHealthGaugePtr, mManaGaugePtr, mATBGaugePtr}
Bars == {mHealthBarAPtr, mHealthBarBPtr, mManaBarAPtr, mManaBarBPtr,
         mATBBarAPtr, mATBBarBPtr}
Digits == {mDigitPtr(i) : i \in 0..(NUM_DIGITS - 1)}
Tiles == Gauges \cup Bars \cup Digits

TileWidth(t) ==
    IF t \in Gauges THEN GAUGE_WIDTH
    ELSE IF t \in Bars THEN BAR_WIDTH ELSE DIGIT_WIDTH

TileHeight(t) ==
    IF t \in Gauges THEN GAUGE_HEIGHT
    ELSE IF t \in Bars THEN BAR_HEIGHT ELSE DIGIT_HEIGHT

TileSrcX(t) ==
    CASE t = mHealthGaugePtr -> HEALTH_GAUGE_SRC_X
      [] t = mManaGaugePtr -> MANA_GAUGE_SRC_X
      [] t = mATBGaugePtr -> ATB_GAUGE_SRC_X
      [] t = mHealthBarAPtr -> HEALTH_BAR_A_SRC_X
      [] t = mManaBarAPtr -> MANA_BAR_A_SRC_X
      [] t = mATBBarAPtr -> ATB_BAR_A_SRC_X
      [] t = mHealthBarBPtr -> HEALTH_BAR_B_SRC_X
      [] t = mManaBarBPtr -> MANA_BAR_B_SRC_X
      [] t = mATBBarBPtr -> ATB_BAR_B_SRC_X
      [] OTHER -> DIGIT_SRC_X + DIGIT_WIDTH * t[2]

TileSrcY(t) ==
    CASE t = mHealthGaugePtr -> HEALTH_GAUGE_SRC_Y
      [] t = mManaGaugePtr -> MANA_GAUGE_SRC_Y
      [] t = mATBGaugePtr -> ATB_GAUGE_SRC_Y
      [] t = mHealthBarAPtr -> HEALTH_BAR_A_SRC_Y
      [] t = mManaBarAPtr -> MANA_BAR_A_SRC_Y
      [] t = mATBBarAPtr -> ATB_BAR_A_SRC_Y
      [] t = mHealthBarBPtr -> HEALTH_BAR_B_SRC_Y
      [] t = mManaBarBPtr -> MANA_BAR_B_SRC_Y
      [] t = mATBBarBPtr -> ATB_BAR_B_SRC_Y
      [] OTHER -> DIGIT_SRC_Y

\* the static definitions: every tile pointer is set to a fresh image
StaticTiles == [t \in Tiles |-> ImageCreate(TileWidth(t), TileHeight(t))]

VARIABLES
    proc,             \* "running", "crashed" (invalid access) or "unloaded"
    inBattle,         \* bool inBattle
    mInitialized,     \* BattleDisplay::mInitialized
    mTile,            \* the image behind each static tile pointer
    tileDestroyed,    \* RPG::Image::destroy calls made on each tile pointer
    mBattlerPtr,      \* per display: mBattlerPtr
    mCurHealth,       \* per display: mCurHealth
    mCurMana,         \* per display: mCurMana
    mCurATB,          \* per display: mCurATB
    mDisplay,         \* per display: the image behind mDisplayPtr
    displayDestroyed, \* RPG::Image::destroy calls made on each mDisplayPtr
    battlers,         \* host: the RPG::Battler behind each battler pointer
    system2Image,     \* host: content version of the system graphic
    apiCalls,         \* direct method calls made so far
    callBudget,       \* direct method calls one run may make
    exitCalls,        \* onExit calls made so far
    call,             \* the last direct method call: operation, display, battler
    recording,        \* whether the tick recorder is on
    ticks             \* recorder: the onFrame ticks since the last startup

vars == <<proc, inBattle, mInitialized, mTile, tileDestroyed, mBattlerPtr,
          mCurHealth, mCurMana, mCurATB, mDisplay, displayDestroyed,
          battlers, system2Image, apiCalls, callBudget, exitCalls, call,
          recording, ticks>>

hostVars == <<battlers, system2Image>>
snapshotVars == <<mBattlerPtr, mCurHealth, mCurMana, mCurATB>>
tileVars == <<mInitialized, mTile, tileDestroyed>>

\* the plugin is loaded, has not faulted and has not been told to exit
Live == proc = "running" /\ exitCalls = 0

(***************************************************************************)
(* BattleDisplay, on a record st of the class's static members and the     *)
(* members of every instance.                                              *)
(***************************************************************************)
PluginState ==
    [init |-> mInitialized, tile |-> mTile, ptr |-> mBattlerPtr,
     hp |-> mCurHealth, mp |-> mCurMana, atb |-> mCurATB, disp |-> mDisplay]

\* a constructor that creates the canvas with width and height exchanged
BattleDisplayDefault_SwappedSize ==
    [ptr |-> NULL, hp |-> 0, mp |-> 0, atb |-> 0,
     disp |-> ImageCreate(DISPLAY_HEIGHT, DISPLAY_WIDTH)]

\* BattleDisplay::BattleDisplay(): the members of a default-constructed display
BattleDisplayDefault ==
    [ptr |-> NULL, hp |-> 0, mp |-> 0, atb |-> 0,
     disp |-> ImageCreate(DISPLAY_WIDTH, DISPLAY_HEIGHT)]

\* BattleDisplay::BattleDisplay( RPG::Battler * ): display d comes to exist,
\* constructed for battler pointer b; the static tiles are not touched
BattleDisplayFor(st, d, b, host) ==
    [st EXCEPT !.ptr = (d :> b) @@ @,
               !.hp = (d :> host[b].hp) @@ @,
               !.mp = (d :> host[b].mp) @@ @,
               !.atb = (d :> host[b].atbValue) @@ @,
               !.disp = (d :> ImageCreate(DISPLAY_WIDTH, DISPLAY_HEIGHT)) @@ @]

\* InitializeStatic that extracts the tiles and leaves mInitialized as it was
InitializeStatic_NoFlag(st, g) ==
    [st EXCEPT
        !.tile = [t \in Tiles |->
            ImageDraw(st.tile[t], 0, 0, SystemGraphic(g),
                      TileSrcX(t), TileSrcY(t), TileWidth(t), TileHeight(t), 0)]]

\* BattleDisplay::InitializeStatic
InitializeStatic(st, g) ==
    [st EXCEPT
        !.tile = [t \in Tiles |->
            ImageDraw(st.tile[t], 0, 0, SystemGraphic(g),
                      TileSrcX(t), TileSrcY(t), TileWidth(t), TileHeight(t), 0)],
        !.init = TRUE]

\* SetBattler without the mInitialized test: the tiles are extracted on every call
SetBattler_AlwaysInit(st, d, b, host, g) ==
    LET s1 == InitializeStatic(st, g)
    IN [s1 EXCEPT !.ptr[d] = b,
                  !.hp[d] = host[b].hp,
                  !.mp[d] = host[b].mp,
                  !.atb[d] = host[b].atbValue]

\* SetBattler reading hp, mp and atbValue before mBattlerPtr is assigned: a
\* display that is already bound copies the stats of its previous battler
SetBattler_ReadsOldPtr(st, d, b, host, g) ==
    LET s1 == IF ~st.init THEN InitializeStatic(st, g) ELSE st
        from == IF st.ptr[d] = NULL THEN b ELSE st.ptr[d]
    IN [s1 EXCEPT !.ptr[d] = b,
                  !.hp[d] = host[from].hp,
                  !.mp[d] = host[from].mp,
                  !.atb[d] = host[from].atbValue]

\* SetBattler that ends by clearing the canvas and drawing the gauge
SetBattler_Redraws(st, d, b, host, g) ==
    LET s1 == IF st.init THEN st ELSE InitializeStatic(st, g)
    IN [s1 EXCEPT !.ptr[d] = b,
                  !.hp[d] = host[b].hp,
                  !.mp[d] = host[b].mp,
                  !.atb[d] = host[b].atbValue,
                  !.disp[d] = ImageDraw(ImageClear(s1.disp[d]), 0,
                                        DISPLAY_HEIGHT - GAUGE_HEIGHT,
                                        s1.tile[mHealthGaugePtr].layers,
                                        0, 0, GAUGE_WIDTH, GAUGE_HEIGHT, 0)]

\* SetBattler that stores NULL when the battler's databaseId is 0
SetBattler_DropsAbsent(st, d, b, host, g) ==
    LET s1 == IF ~st.init THEN InitializeStatic(st, g) ELSE st
    IN [s1 EXCEPT !.ptr[d] = IF host[b].databaseId = 0 THEN NULL ELSE b,
                  !.hp[d] = host[b].hp,
                  !.mp[d] = host[b].mp,
                  !.atb[d] = host[b].atbValue]

\* BattleDisplay::SetBattler, called on display d with battler pointer b
SetBattler(st, d, b, host, g) ==
    LET s1 == IF ~st.init THEN InitializeStatic(st, g) ELSE st
    IN [s1 EXCEPT !.ptr[d] = b,
                  !.hp[d] = host[b].hp,
                  !.mp[d] = host[b].mp,
                  !.atb[d] = host[b].atbValue]

\* Draw that clears the shared gauge tile along with the canvas
Draw_ClearsTile(st, d) ==
    [st EXCEPT !.tile[mHealthGaugePtr] = ImageClear(@),
               !.disp[d] =
        ImageDraw(ImageClear(st.disp[d]), 0, DISPLAY_HEIGHT - GAUGE_HEIGHT,
                  st.tile[mHealthGaugePtr].layers,
                  0, 0, GAUGE_WIDTH, GAUGE_HEIGHT, 0)]

\* Draw without the clear: the gauge is drawn over what the canvas held
Draw_NoClear(st, d) ==
    [st EXCEPT !.disp[d] =
        ImageDraw(st.disp[d], 0, DISPLAY_HEIGHT - GAUGE_HEIGHT,
                  st.tile[mHealthGaugePtr].layers,
                  0, 0, GAUGE_WIDTH, GAUGE_HEIGHT, 0)]

\* BattleDisplay::Draw on display d
Draw(st, d) ==
    LET curX == 0
        curY == DISPLAY_HEIGHT - GAUGE_HEIGHT
    IN [st EXCEPT !.disp[d] =
            ImageDraw(ImageClear(st.disp[d]), curX, curY,
                      st.tile[mHealthGaugePtr].layers,
                      0, 0, GAUGE_WIDTH, GAUGE_HEIGHT, 0)]

\* Update that redraws without reading the battler again
Update_NoReread(st, d, v) == Draw(st, d)

\* BattleDisplay::Update on display d, the reads through mBattlerPtr yielding v
Update(st, d, v) ==
    Draw([st EXCEPT !.hp[d] = v.hp, !.mp[d] = v.mp, !.atb[d] = v.atbValue], d)

\* the monster loop without the databaseId test: every slot is bound
RECURSIVE BindMonsters_IgnoreId(_, _, _, _)
BindMonsters_IgnoreId(st, i, host, g) ==
    IF i >= NUM_MONSTERS THEN st
    ELSE BindMonsters_IgnoreId(SetBattler(st, Monster(i), Monster(i), host, g),
                               i + 1, host, g)

\* the monster loop of onFrame, from index i on
RECURSIVE BindMonsters(_, _, _, _)
BindMonsters(st, i, host, g) ==
    IF i >= NUM_MONSTERS THEN st
    ELSE IF 0 # host[Monster(i)].databaseId
         THEN BindMonsters(SetBattler(st, Monster(i), Monster(i), host, g),
                           i + 1, host, g)
         ELSE BindMonsters(st, i + 1, host, g)

\* onFrame that never clears the flag when the battle ends
FrameStep_NoLeave(flag, st, scene, host, g) ==
    IF flag
    THEN [inBattle |-> flag, st |-> st]
    ELSE IF SCENE_BATTLE = scene
         THEN [inBattle |-> TRUE, st |-> BindMonsters(st, 0, host, g)]
         ELSE [inBattle |-> flag, st |-> st]

\* onFrame that binds the monsters on every battle-scene tick
FrameStep_BindsEveryTick(flag, st, scene, host, g) ==
    IF SCENE_BATTLE = scene
    THEN [inBattle |-> TRUE, st |-> BindMonsters(st, 0, host, g)]
    ELSE [inBattle |-> FALSE, st |-> st]

\* onFrame that unbinds every display when the battle ends
FrameStep_UnbindsOnLeave(flag, st, scene, host, g) ==
    IF flag
    THEN IF SCENE_BATTLE # scene
         THEN [inBattle |-> FALSE,
               st |-> [st EXCEPT !.ptr = [d \in DOMAIN st.ptr |-> NULL]]]
         ELSE [inBattle |-> flag, st |-> st]
    ELSE IF SCENE_BATTLE = scene
         THEN [inBattle |-> TRUE, st |-> BindMonsters(st, 0, host, g)]
         ELSE [inBattle |-> flag, st |-> st]

\* onFrame that binds the four hero displays as well on battle start
FrameStep_BindsHeroes(flag, st, scene, host, g) ==
    IF flag
    THEN IF SCENE_BATTLE # scene
         THEN [inBattle |-> FALSE, st |-> st]
         ELSE [inBattle |-> flag, st |-> st]
    ELSE IF SCENE_BATTLE = scene
         THEN LET h0 == SetBattler(BindMonsters(st, 0, host, g),
                                   Hero(0), Hero(0), host, g)
                  h1 == SetBattler(h0, Hero(1), Hero(1), host, g)
                  h2 == SetBattler(h1, Hero(2), Hero(2), host, g)
              IN [inBattle |-> TRUE,
                  st |-> SetBattler(h2, Hero(3), Hero(3), host, g)]
         ELSE [inBattle |-> flag, st |-> st]

\* the body of onFrame: from the flag and the plugin state before the tick to
\* the flag and the plugin state after it
FrameStep(flag, st, scene, host, g) ==
    IF flag
    THEN IF SCENE_BATTLE # scene
         THEN [inBattle |-> FALSE, st |-> st]
         ELSE [inBattle |-> flag, st |-> st]
    ELSE IF SCENE_BATTLE = scene
         THEN [inBattle |-> TRUE, st |-> BindMonsters(st, 0, host, g)]
         ELSE [inBattle |-> flag, st |-> st]

\* onExit whose digit loop stops one short
DestroyedByExit_MissesLastDigit == Tiles \ {mDigitPtr(NUM_DIGITS - 1)}

\* the tile pointers onExit passes to RPG::Image::destroy
DestroyedByExit == Tiles

\* the plugin state variables take the values of record st
Becomes(st) ==
    /\ mInitialized' = st.init
    /\ mTile' = st.tile
    /\ mBattlerPtr' = st.ptr
    /\ mCurHealth' = st.hp
    /\ mCurMana' = st.mp
    /\ mCurATB' = st.atb
    /\ mDisplay' = st.disp

\* the tick recorder
Recorded(scene, before, after) ==
    IF recording
    THEN Append(ticks, [scene |-> scene, before |-> before, after |-> after])
    ELSE ticks

(***************************************************************************)
(* Initial state: the statics of DynGauge.cpp:268-299 are constructed.     *)
(***************************************************************************)
InitPlugin ==
    /\ proc = "running"
    /\ inBattle = FALSE
    /\ mInitialized = FALSE
    /\ mTile = StaticTiles
    /\ tileDestroyed = [t \in Tiles |-> 0]
    /\ mBattlerPtr = [d \in Displays |-> BattleDisplayDefault.ptr]
    /\ mCurHealth = [d \in Displays |-> BattleDisplayDefault.hp]
    /\ mCurMana = [d \in Displays |-> BattleDisplayDefault.mp]
    /\ mCurATB = [d \in Displays |-> BattleDisplayDefault.atb]
    /\ mDisplay = [d \in Displays |-> BattleDisplayDefault.disp]
    /\ displayDestroyed = [d \in Displays |-> 0]
    /\ apiCalls = 0
    /\ exitCalls = 0
    /\ call = [op |-> "none", d |-> NULL, b |-> NULL]
    /\ ticks = <<>>

InitHost ==
    /\ \E n \in EncounterSizes : battlers = Encounter(n)
    /\ system2Image = 1

Init == InitPlugin /\ InitHost /\ recording = TRUE /\ callBudget = 0

InitApi ==
    InitPlugin /\ InitHost /\ recording = FALSE /\ callBudget = MaxApiCalls

\* the BattleDisplay class alone, its hooks never called
InitDisplay ==
    InitPlugin /\ InitHost /\ recording = FALSE /\ callBudget = MaxDisplayCalls

(***************************************************************************)
(* Hooks.                                                                  *)
(***************************************************************************)
\* onStartup
onStartup ==
    /\ Live
    /\ inBattle' = FALSE
    /\ ticks' = <<>>
    /\ UNCHANGED <<proc, tileVars, snapshotVars, mDisplay, displayDestroyed,
                   hostVars, apiCalls, exitCalls, call, recording, callBudget>>

\* onFrame(scene)
onFrame(scene) ==
    /\ Live
    /\ recording => Len(ticks) < MaxTicks
    /\ LET r == FrameStep(inBattle, PluginState, scene, battlers, system2Image)
       IN /\ inBattle' = r.inBattle
          /\ Becomes(r.st)
    /\ UNCHANGED tileDestroyed
    /\ ticks' = Recorded(scene, inBattle, inBattle')
    /\ UNCHANGED <<proc, displayDestroyed, hostVars, apiCalls, exitCalls,
                   call, recording, callBudget>>

\* onExit that destroys the canvases of the displays along with the tiles
onExit_DestroysCanvases ==
    /\ proc = "running"
    /\ exitCalls < MaxExits
    /\ tileDestroyed' = [t \in Tiles |->
            IF t \in DestroyedByExit THEN tileDestroyed[t] + 1
            ELSE tileDestroyed[t]]
    /\ displayDestroyed' = [d \in DOMAIN displayDestroyed |->
                                displayDestroyed[d] + 1]
    /\ exitCalls' = exitCalls + 1
    /\ UNCHANGED <<proc, inBattle, mInitialized, mTile, snapshotVars, mDisplay,
                   hostVars, apiCalls, call, recording, callBudget, ticks>>

\* onExit
onExit ==
    /\ proc = "running"
    /\ exitCalls < MaxExits
    /\ tileDestroyed' = [t \in Tiles |->
            IF t \in DestroyedByExit THEN tileDestroyed[t] + 1
            ELSE tileDestroyed[t]]
    /\ exitCalls' = exitCalls + 1
    /\ UNCHANGED <<proc, inBattle, mInitialized, mTile, snapshotVars, mDisplay,
                   displayDestroyed, hostVars, apiCalls, call, recording, callBudget, ticks>>

(***************************************************************************)
(* The host changes a battler entry or the system graphic.                 *)
(***************************************************************************)
HostWrite(b, v) ==
    /\ Live
    /\ battlers[b] # v
    /\ battlers' = [battlers EXCEPT ![b] = v]
    /\ UNCHANGED <<proc, inBattle, tileVars, snapshotVars, mDisplay,
                   displayDestroyed, system2Image, apiCalls, exitCalls,
                   call, recording, callBudget, ticks>>

HostLoadGraphic(g) ==
    /\ Live
    /\ g # system2Image
    /\ system2Image' = g
    /\ UNCHANGED <<proc, inBattle, tileVars, snapshotVars, mDisplay,
                   displayDestroyed, battlers, apiCalls,
                   exitCalls, call, recording, callBudget, ticks>>

(***************************************************************************)
(* Direct calls of the public methods of a BattleDisplay.                  *)
(***************************************************************************)
\* d.SetBattler(b) with a valid battler pointer b
CallSetBattler(d, b) ==
    /\ Live
    /\ apiCalls < callBudget
    /\ d \in DOMAIN mDisplay /\ displayDestroyed[d] = 0
    /\ apiCalls' = apiCalls + 1
    /\ call' = [op |-> "SetBattler", d |-> d, b |-> b]
    /\ Becomes(SetBattler(PluginState, d, b, battlers, system2Image))
    /\ UNCHANGED <<proc, inBattle, tileDestroyed, displayDestroyed, hostVars,
                   exitCalls, recording, callBudget, ticks>>

\* BattleDisplay d( b ): the local display is constructed for battler b
CallBattleDisplay(b) ==
    /\ Live
    /\ apiCalls < callBudget
    /\ LocalDisplay \notin DOMAIN mDisplay
    /\ apiCalls' = apiCalls + 1
    /\ call' = [op |-> "BattleDisplay", d |-> LocalDisplay, b |-> b]
    /\ Becomes(BattleDisplayFor(PluginState, LocalDisplay, b, battlers))
    /\ displayDestroyed' = (LocalDisplay :> 0) @@ displayDestroyed
    /\ UNCHANGED <<proc, inBattle, tileDestroyed, hostVars,
                   exitCalls, recording, callBudget, ticks>>

\* ~BattleDisplay on the local display, when it goes out of scope
CallDestructor ==
    /\ Live
    /\ LocalDisplay \in DOMAIN mDisplay
    /\ displayDestroyed[LocalDisplay] = 0
    /\ displayDestroyed' = [displayDestroyed EXCEPT ![LocalDisplay] = @ + 1]
    /\ UNCHANGED <<proc, inBattle, tileVars, snapshotVars, mDisplay, hostVars,
                   apiCalls, exitCalls, call, recording, callBudget, ticks>>

\* d.Update() on a display whose mBattlerPtr points to a battler
CallUpdate(d) ==
    /\ Live
    /\ apiCalls < callBudget
    /\ d \in DOMAIN mDisplay /\ displayDestroyed[d] = 0
    /\ mBattlerPtr[d] # NULL
    /\ apiCalls' = apiCalls + 1
    /\ call' = [op |-> "Update", d |-> d, b |-> NULL]
    /\ Becomes(Update(PluginState, d, battlers[mBattlerPtr[d]]))
    /\ UNCHANGED <<proc, inBattle, tileDestroyed, displayDestroyed, hostVars,
                   exitCalls, recording, callBudget, ticks>>

\* d.Update() on a display whose mBattlerPtr is NULL: the reads of hp, mp and
\* atbValue go through a null pointer, which is undefined behaviour; the call
\* either faults or goes on with whatever the reads yield
CallUpdateNull(d) ==
    /\ Live
    /\ apiCalls < callBudget
    /\ d \in DOMAIN mDisplay /\ displayDestroyed[d] = 0
    /\ mBattlerPtr[d] = NULL
    /\ apiCalls' = apiCalls + 1
    /\ call' = [op |-> "Update", d |-> d, b |-> NULL]
    /\ \/ /\ proc' = "crashed"
          /\ UNCHANGED <<mInitialized, mTile, snapshotVars, mDisplay>>
       \/ /\ \E v \in GarbageVals : Becomes(Update(PluginState, d, v))
          /\ UNCHANGED proc
    /\ UNCHANGED <<inBattle, tileDestroyed, displayDestroyed, hostVars,
                   exitCalls, recording, callBudget, ticks>>

(***************************************************************************)
(* The battler-drawn hook, wired as its description says: the monster flag *)
(* and the slot id select the display, which is refreshed.  The host calls *)
(* it for the battlers of the battle in progress: the heroes of the party  *)
(* and the monster entries whose databaseId is not 0.                      *)
(***************************************************************************)
onBattlerDrawn(isMonster, id) ==
    LET d == IF isMonster THEN Monster(id) ELSE Hero(id)
    IN /\ Live
       /\ inBattle
       /\ apiCalls < callBudget
       /\ isMonster => battlers[Monster(id)].databaseId # 0
       /\ apiCalls' = apiCalls + 1
       /\ call' = [op |-> "onBattlerDrawn", d |-> d, b |-> d]
       /\ IF mBattlerPtr[d] # NULL
          THEN /\ Becomes(Update(PluginState, d, battlers[mBattlerPtr[d]]))
               /\ UNCHANGED proc
          ELSE \/ /\ proc' = "crashed"
                  /\ UNCHANGED <<mInitialized, mTile, snapshotVars, mDisplay>>
               \/ /\ \E v \in GarbageVals : Becomes(Update(PluginState, d, v))
                  /\ UNCHANGED proc
       /\ UNCHANGED <<inBattle, tileDestroyed, displayDestroyed, hostVars,
                      exitCalls, recording, callBudget, ticks>>

(***************************************************************************)
(* The process ends after onExit: the destructors of the two display pools *)
(* run.                                                                    *)
(***************************************************************************)
StaticDestruction ==
    /\ proc = "running"
    /\ exitCalls >= 1
    /\ proc' = "unloaded"
    /\ displayDestroyed' = [d \in DOMAIN displayDestroyed |->
            IF d \in Displays THEN displayDestroyed[d] + 1
            ELSE displayDestroyed[d]]
    /\ UNCHANGED <<inBattle, tileVars, snapshotVars, mDisplay, hostVars,
                   apiCalls, exitCalls, call, recording, callBudget, ticks>>

\* the plugin as the host drives it
Next ==
    \/ onStartup
    \/ \E scene \in Scenes : onFrame(scene)
    \/ onExit
    \/ StaticDestruction
    \/ \E b \in WrittenBattlers, v \in BattlerVals : HostWrite(b, v)
    \/ \E g \in GraphicVersions : HostLoadGraphic(g)

Spec == Init /\ [][Next]_vars

\* the plugin with the methods of its displays also called directly
NextApi ==
    \/ Next
    \/ \E d \in ApiDisplays, b \in ApiBattlers : CallSetBattler(d, b)
    \/ \E d \in ApiDisplays : CallUpdate(d)
    \/ \E d \in ApiDisplays : CallUpdateNull(d)
    \/ \E b \in CtorBattlers : CallBattleDisplay(b)
    \/ CallDestructor

SpecApi == InitApi /\ [][NextApi]_vars

\* the methods of the displays called directly, the hooks never called
NextDisplay ==
    \/ \E d \in ApiDisplays, b \in ApiBattlers : CallSetBattler(d, b)
    \/ \E d \in ApiDisplays : CallUpdate(d)
    \/ \E d \in ApiDisplays : CallUpdateNull(d)
    \/ \E b \in CtorBattlers : CallBattleDisplay(b)
    \/ CallDestructor
    \/ \E b \in WrittenBattlers, v \in BattlerVals : HostWrite(b, v)
    \/ \E g \in GraphicVersions : HostLoadGraphic(g)

SpecDisplay == InitDisplay /\ [][NextDisplay]_vars

\* the plugin with the battler-drawn hook wired; the host leaves the battler
\* entries as the encounter set them, so the entries of a battle are those of
\* its start
NextDrawn ==
    \/ onStartup
    \/ \E scene \in Scenes : onFrame(scene)
    \/ onExit
    \/ StaticDestruction
    \/ \E g \in GraphicVersions : HostLoadGraphic(g)
    \/ \E id \in 0..(NUM_HEROES - 1) : onBattlerDrawn(FALSE, id)
    \/ \E id \in 0..(NUM_MONSTERS - 1) : onBattlerDrawn(TRUE, id)

SpecDrawn == InitApi /\ [][NextDrawn]_vars

(***************************************************************************)
(* Properties.                                                             *)
(***************************************************************************)
Snapshot(d) == <<mCurHealth[d], mCurMana[d], mCurATB[d]>>
SnapshotAfter(d) == <<mCurHealth'[d], mCurMana'[d], mCurATB'[d]>>
StatsOf(v) == <<v.hp, v.mp, v.atbValue>>

\* the step is an onFrame tick, and the tick it recorded
Ticked == Len(ticks') = Len(ticks) + 1
ThisTick == ticks'[Len(ticks')]
LastTick == ticks[Len(ticks)]
SceneLog == [k \in 1..Len(ticks) |-> ticks[k].scene]
Transitions ==
    {<<k, ticks[k].before, ticks[k].after>> :
        k \in {j \in 1..Len(ticks) : ticks[j].before # ticks[j].after}}

\* the step is a direct call of the named method
Called(op) == apiCalls' = apiCalls + 1 /\ call'.op = op

\* C1: from the state onStartup leaves, after every onFrame tick the flag is
\* InBattle exactly when the tick's scene is the battle scene, each tick
\* starts from the flag the previous one left, and the ticks
\* [non-battle, battle, battle, non-battle] make exactly two transitions:
\* OutOfBattle->InBattle on the 2nd and InBattle->OutOfBattle on the 4th.
C1_FlagFollowsScene ==
    /\ \A k \in 1..Len(ticks) :
          /\ ticks[k].after = (ticks[k].scene = SCENE_BATTLE)
          /\ ticks[k].before = IF k = 1 THEN FALSE ELSE ticks[k - 1].after
    /\ Len(ticks) > 0 => inBattle = LastTick.after
    /\ SceneLog = <<SCENE_MAP, SCENE_BATTLE, SCENE_BATTLE, SCENE_MAP>>
          => Transitions = {<<2, FALSE, TRUE>>, <<4, TRUE, FALSE>>}

C1_Witness ==
    /\ SceneLog = <<SCENE_MAP, SCENE_BATTLE, SCENE_BATTLE, SCENE_MAP>>
    /\ Cardinality(Transitions) = 2
    /\ ~inBattle

\* C2: on a tick that takes OutOfBattle to InBattle, every monster slot i whose
\* host entry has a non-zero database id is afterwards bound to monster entry
\* i, and every slot whose entry has database id 0 keeps its battler pointer
\* and its snapshot.
C2_BattleStartBinds ==
    [][(Ticked /\ ~inBattle /\ inBattle') =>
        \A i \in 0..(NUM_MONSTERS - 1) :
            IF battlers[Monster(i)].databaseId # 0
            THEN mBattlerPtr'[Monster(i)] = Monster(i)
            ELSE /\ mBattlerPtr'[Monster(i)] = mBattlerPtr[Monster(i)]
                 /\ SnapshotAfter(Monster(i)) = Snapshot(Monster(i))]_vars

\* a battle has just started with one entry present and bound and another
\* entry absent whose slot still holds the binding of an earlier battle
C2_Witness ==
    /\ SceneLog = <<SCENE_BATTLE, SCENE_MAP, SCENE_BATTLE>>
    /\ ~LastTick.before /\ LastTick.after /\ inBattle
    /\ battlers[Monster(0)].databaseId = 0
    /\ mBattlerPtr[Monster(0)] = Monster(0)
    /\ Snapshot(Monster(0)) # StatsOf(battlers[Monster(0)])
    /\ battlers[Monster(1)].databaseId # 0
    /\ mBattlerPtr[Monster(1)] = Monster(1)

\* C3: once the tiles have been extracted, no step changes any tile: each of
\* the 19 tiles holds exactly the one extraction of the first SetBattler call,
\* whatever the system graphic has become since.
C3_TilesExtractedOnce ==
    /\ [](mInitialized => \A t \in Tiles : Len(mTile[t].layers) = 1)
    /\ [][mInitialized => mTile' = mTile]_vars

\* the tiles were extracted from graphic 1, the graphic has changed, and
\* SetBattler has run again since (a direct call and a battle start)
C3_Witness ==
    /\ mInitialized
    /\ \A t \in Tiles : mTile[t].layers[1].src = SystemGraphic(1)
    /\ system2Image = 2
    /\ call.op = "SetBattler"
    /\ \E d \in MonsterDisplays \ {call.d} : mBattlerPtr[d] # NULL

\* C4: right after d.SetBattler(b) display d is bound to b and its snapshot is
\* (b.hp, b.mp, b.atbValue), whatever d was bound to before.
C4_SetBattlerSnapshots ==
    [][Called("SetBattler") =>
        /\ mBattlerPtr'[call'.d] = call'.b
        /\ SnapshotAfter(call'.d) = StatsOf(battlers[call'.b])]_vars

\* monsterBattleDisplay[0] has been rebound to a hero with stats (50,10,200)
\* after a battle start had bound the monster slots
C4_Witness ==
    /\ call = [op |-> "SetBattler", d |-> Monster(0), b |-> Hero(0)]
    /\ mBattlerPtr[Monster(0)] = Hero(0)
    /\ Snapshot(Monster(0)) = <<50, 10, 200>>
    /\ mBattlerPtr[Monster(NUM_MONSTERS - 1)] = Monster(NUM_MONSTERS - 1)

\* C5: after Update() on a bound display the snapshot is the bound battler's
\* hp, mp and atbValue as they are at the call, and the battler pointer is
\* the same as before.
C5_UpdateRereads ==
    [][(Called("Update") /\ mBattlerPtr[call'.d] # NULL) =>
        /\ SnapshotAfter(call'.d) = StatsOf(battlers[mBattlerPtr[call'.d]])
        /\ mBattlerPtr' = mBattlerPtr]_vars

\* a bound display was updated and holds stats only a host write produces
C5_Witness ==
    /\ call.op = "Update"
    /\ mBattlerPtr[call.d] # NULL
    /\ Snapshot(call.d) = <<7, 3, 1>>
    /\ proc = "running"

\* C6: no tile buffer is passed to RPG::Image::destroy more than once, however
\* many times onExit is called.
C6_NoDoubleDestroy == \A t \in Tiles : tileDestroyed[t] <= 1

\* C7: one onExit call destroys each of the 19 tile buffers exactly once,
\* whether or not the tiles were ever extracted, and no display image.
C7_ExitDestroysEachTileOnce ==
    /\ [](Cardinality(Tiles) = 19)
    /\ [][exitCalls' = exitCalls + 1 =>
            /\ \A t \in Tiles : tileDestroyed'[t] = tileDestroyed[t] + 1
            /\ displayDestroyed' = displayDestroyed]_vars

\* onExit has run once, after the tiles had been extracted
C7_Witness ==
    /\ exitCalls = 1
    /\ mInitialized
    /\ \A t \in Tiles : tileDestroyed[t] = 1
    /\ \A d \in Displays : displayDestroyed[d] = 0

\* C8: Update() on a display whose battler pointer is NULL does nothing: no
\* fault, and snapshot and display image as before.
C8_UpdateUnboundIsNoOp ==
    [][(Called("Update") /\ mBattlerPtr[call'.d] = NULL) =>
        /\ proc' = "running"
        /\ SnapshotAfter(call'.d) = Snapshot(call'.d)
        /\ mDisplay' = mDisplay]_vars

\* C9: a tick whose scene has the battle-ness the flag already has changes
\* neither the flag, nor any display's battler pointer, snapshot or image,
\* nor the tiles or the initialized flag.
C9_SameSceneTickChangesNothing ==
    [][(Ticked /\ ThisTick.before = (ThisTick.scene = SCENE_BATTLE)) =>
        UNCHANGED <<inBattle, snapshotVars, mDisplay, tileVars>>]_vars

\* a battle tick came while in battle, with an entry whose database id is
\* non-zero and whose slot is unbound
C9_Witness ==
    /\ Len(ticks) >= 2
    /\ LastTick.before /\ LastTick.after /\ LastTick.scene = SCENE_BATTLE
    /\ battlers[Monster(0)].databaseId # 0
    /\ mBattlerPtr[Monster(0)] = NULL

\* C10: the tick that takes InBattle to OutOfBattle changes only the flag:
\* battler pointers, snapshots, display images and tiles stay, and a battler
\* pointer changes on no step other than a battle-start tick.
C10_BattleEndKeepsBindings ==
    /\ [][(Ticked /\ inBattle /\ ~inBattle') =>
            UNCHANGED <<snapshotVars, mDisplay, tileVars>>]_vars
    /\ [][mBattlerPtr' # mBattlerPtr => (Ticked /\ ~inBattle /\ inBattle')]_vars

\* the battle has just ended and the slots bound in it are still bound
C10_Witness ==
    /\ Len(ticks) > 0 /\ LastTick.before /\ ~LastTick.after /\ ~inBattle
    /\ \A i \in 0..(NUM_MONSTERS - 1) : mBattlerPtr[Monster(i)] = Monster(i)

\* the canvas a refresh leaves: blank but for the health gauge tile, 40 by 8,
\* at the bottom left
GaugeOnlyCanvas ==
    [width |-> 80, height |-> 320,
     layers |-> << [dx |-> 0, dy |-> 312, src |-> mTile[mHealthGaugePtr].layers,
                    sx |-> 0, sy |-> 0, w |-> 40, h |-> 8, mask |-> 0] >>]

\* C11: after every Update() on a Bound display its canvas is a cleared 80x320
\* canvas with only the HealthGauge tile (40x8) drawn at x = 0, y = 312, a
\* region inside the canvas, whatever the canvas held before and whatever the
\* snapshot is; no mana or ATB gauge, bar or digit tile is drawn.
C11_UpdateDrawsOnlyHealthGauge ==
    [][\A d \in DOMAIN mDisplay :
          (Called("Update") /\ call'.d = d /\ mBattlerPtr[d] # NULL) =>
              /\ mDisplay'[d] = GaugeOnlyCanvas
              /\ \A k \in 1..Len(mDisplay'[d].layers) :
                    LET l == mDisplay'[d].layers[k]
                    IN /\ 0 <= l.dx /\ l.dx + l.w <= mDisplay'[d].width
                       /\ 0 <= l.dy /\ l.dy + l.h <= mDisplay'[d].height]_vars

\* a Bound display refreshed as the third call made on it, its snapshot
\* non-zero: the calls before it were a bind and a refresh, or a refresh and a
\* bind
C11_Witness ==
    /\ apiCalls = 3
    /\ call.op = "Update"
    /\ mBattlerPtr[call.d] # NULL
    /\ mCurHealth[call.d] # 0
    /\ mDisplay[call.d] = GaugeOnlyCanvas
    /\ \A d \in DOMAIN mDisplay \ {call.d} :
          mBattlerPtr[d] = NULL /\ mDisplay[d].layers = <<>>

\* C12: a default-constructed display is Unbound, has the snapshot (0, 0, 0)
\* and owns an allocated canvas of exactly 80 by 320; this holds for all 4 hero
\* and all 8 monster slots in the initial state and for as long as no
\* SetBattler has run.
C12_DefaultConstructed ==
    (proc = "running" /\ ~mInitialized) =>
        /\ Cardinality(HeroDisplays) = 4
        /\ Cardinality(MonsterDisplays) = 8
        /\ \A d \in HeroDisplays \cup MonsterDisplays :
              /\ mBattlerPtr[d] = NULL
              /\ <<mCurHealth[d], mCurMana[d], mCurATB[d]>> = <<0, 0, 0>>
              /\ mDisplay[d] = [width |-> 80, height |-> 320, layers |-> <<>>]
              /\ displayDestroyed[d] = 0

\* the state construction leaves, no hook called yet
C12_Witness ==
    /\ proc = "running" /\ ~mInitialized /\ ~inBattle
    /\ exitCalls = 0 /\ ticks = <<>>
    /\ \A d \in Displays : mBattlerPtr[d] = NULL /\ displayDestroyed[d] = 0

\* C13: the lifecycle hooks never bind a hero slot: in every state reached
\* through onStartup, onFrame and onExit all 4 hero displays are Unbound with
\* the snapshot (0, 0, 0), after any number of battle starts.
C13_HeroesNeverBound ==
    \A i \in 0..3 :
        /\ mBattlerPtr[Hero(i)] = NULL
        /\ mCurHealth[Hero(i)] = 0
        /\ mCurMana[Hero(i)] = 0
        /\ mCurATB[Hero(i)] = 0

\* a second battle has started and bound all 8 monster slots, the hero slots
\* still Unbound
C13_Witness ==
    /\ SceneLog = <<SCENE_BATTLE, SCENE_MAP, SCENE_BATTLE>>
    /\ inBattle
    /\ \A m \in MonsterDisplays : mBattlerPtr[m] = m
    /\ \A h \in HeroDisplays : mBattlerPtr[h] = NULL

\* C14: SetBattler does not redraw: it leaves every canvas, the bound
\* display's included, exactly as it was; a canvas changes only in a step that
\* is an Update() call.
C14_SetBattlerKeepsCanvas ==
    [][/\ Called("SetBattler") => mDisplay' = mDisplay
       /\ \A d \in DOMAIN mDisplay :
             mDisplay'[d] # mDisplay[d] => Called("Update") /\ call'.d = d]_vars

\* SetBattler has just been called on a display whose canvas holds a drawn
\* gauge
C14_Witness ==
    /\ call.op = "SetBattler"
    /\ mBattlerPtr[call.d] = call.b
    /\ Len(mDisplay[call.d].layers) = 1

\* C15: there is one image per tile kind, 19 in all, and every display draws
\* from that one set: no two canvases drawn since the extraction show different
\* gauge tiles, and once the tiles are extracted no bind, refresh or battle
\* start changes the content of any of them.
C15_OneSharedTileSet ==
    /\ [](/\ DOMAIN mTile = Gauges \cup Bars \cup Digits
          /\ Cardinality(DOMAIN mTile) = 19
          /\ \A d \in DOMAIN mDisplay : \A k \in 1..Len(mDisplay[d].layers) :
                mDisplay[d].layers[k].src \in {<<>>, mTile[mHealthGaugePtr].layers})
    /\ [][(/\ mInitialized
           /\ \/ Called("SetBattler")
              \/ Called("Update")
              \/ (~inBattle /\ inBattle'))
          => \A t \in DOMAIN mTile : mTile'[t] = mTile[t]]_vars

\* a battle start has bound all 8 monster displays and extracted the tiles,
\* and one of the displays has since been refreshed from the shared gauge tile
C15_Witness ==
    /\ mInitialized /\ inBattle
    /\ \A m \in MonsterDisplays : mBattlerPtr[m] = m
    /\ call.op = "Update"
    /\ Len(mDisplay[call.d].layers) = 1
    /\ mDisplay[call.d].layers[1].src = mTile[mHealthGaugePtr].layers
    /\ Len(mTile[mHealthGaugePtr].layers) = 1

\* C16: the canvas of every display, pooled or constructed for a battler, is
\* allocated, 80 by 320, in every state from the display's construction to
\* its destruction: no onStartup, onFrame, SetBattler, Update or onExit step
\* destroys or replaces it, and it is destroyed at most once, by the
\* destructor; the canvases of the pools have been destroyed exactly once
\* when the static destructors have run.
C16_CanvasAllocated ==
    /\ [](\A d \in DOMAIN mDisplay :
            /\ mDisplay[d].width = 80
            /\ mDisplay[d].height = 320
            /\ displayDestroyed[d] <= 1
            /\ d \in Displays =>
                  displayDestroyed[d] = IF proc = "unloaded" THEN 1 ELSE 0)
    /\ [][\A d \in DOMAIN mDisplay :
            displayDestroyed'[d] # displayDestroyed[d] =>
                UNCHANGED <<apiCalls, exitCalls, inBattle, ticks, snapshotVars,
                            mDisplay, tileVars>>]_vars

\* a display constructed for a battler has been destroyed, onExit has run
\* twice after a battle start, and the destructors of the pools have not run
\* yet
C16_Witness ==
    /\ proc = "running"
    /\ exitCalls = 2
    /\ call.op = "BattleDisplay"
    /\ displayDestroyed[LocalDisplay] = 1
    /\ \E m \in MonsterDisplays : mBattlerPtr[m] = m
    /\ \A d \in Displays : displayDestroyed[d] = 0

\* C17: tile initialization is lazy and monotone: mInitialized turns true only
\* in a step that runs SetBattler (a direct call, or a battle start with a
\* monster entry of non-zero database id), it is true after every SetBattler,
\* a battle start with all database ids 0 leaves it false, and no step, onExit
\* and onStartup included, turns it back to false.
C17_LazyMonotoneInit ==
    [][/\ mInitialized => mInitialized'
       /\ Called("SetBattler") => mInitialized'
       /\ (~mInitialized /\ mInitialized') =>
             \/ Called("SetBattler")
             \/ /\ ~inBattle /\ inBattle'
                /\ \E m \in Monsters : battlers[m].databaseId # 0
       /\ (/\ ~mInitialized
           /\ ~inBattle /\ inBattle'
           /\ \A m \in Monsters : battlers[m].databaseId = 0)
             => ~mInitialized']_vars

\* a battle has started with every database id 0 and the tiles are still not
\* extracted
C17_Witness ==
    /\ inBattle
    /\ ~mInitialized
    /\ \A m \in Monsters : battlers[m].databaseId = 0
    /\ \A t \in Tiles : mTile[t].layers = <<>>

\* C18: with the battler-drawn hook wired, every refresh the host triggers
\* for a battler of the current battle (a hero slot 0..3, or a monster slot
\* whose entry had a non-zero database id at battle start) reaches a display
\* Bound to that very battler.
C18_DrawnBattlerIsBound ==
    [][(/\ Called("onBattlerDrawn")
        /\ \/ call'.b \in Heroes
           \/ battlers[call'.b].databaseId # 0)
          => mBattlerPtr[call'.d] = call'.b]_vars

\* C19: Bound is never left: once SetBattler has bound a display, no onFrame,
\* SetBattler, Update, onStartup or onExit step returns it to Unbound, and
\* SetBattler on a Bound display (a direct call, or the one a battle start
\* makes) only replaces the battler it refers to.
C19_BoundIsMonotone ==
    [][\A d \in DOMAIN mBattlerPtr :
          mBattlerPtr[d] # NULL =>
              /\ mBattlerPtr'[d] # NULL
              /\ mBattlerPtr'[d] # mBattlerPtr[d] =>
                    \/ /\ Called("SetBattler")
                       /\ call'.d = d
                       /\ mBattlerPtr'[d] = call'.b
                    \/ /\ ~inBattle /\ inBattle'
                       /\ mBattlerPtr'[d] = d]_vars

\* a display bound by a battle start has been rebound by a direct call to a
\* battler whose databaseId is 0 by then, the battle has ended, and onExit
\* has run
C19_Witness ==
    /\ call.op = "SetBattler"
    /\ call.d \in MonsterDisplays
    /\ mBattlerPtr[call.d] = call.b
    /\ call.b # call.d
    /\ battlers[call.b].databaseId = 0
    /\ \A m \in MonsterDisplays : mBattlerPtr[m] # NULL
    /\ ~inBattle
    /\ exitCalls >= 1

\* the rectangle of the system graphic a tile was extracted from
SrcRect(t) ==
    LET l == mTile[t].layers[1]
    IN [x |-> l.sx, y |-> l.sy, w |-> l.w, h |-> l.h]

\* two rectangles with no pixel in common
RectsDisjoint(a, b) ==
    \/ a.x + a.w <= b.x
    \/ b.x + b.w <= a.x
    \/ a.y + a.h <= b.y
    \/ b.y + b.h <= a.y

\* C20: the source rectangles the 19 tiles are extracted from are pairwise
\* disjoint: no two tile kinds share a pixel of the system graphic.
C20_SourceRectsDisjoint ==
    mInitialized =>
        \A t1 \in Tiles : \A t2 \in Tiles \ {t1} :
            RectsDisjoint(SrcRect(t1), SrcRect(t2))
====
